---- MODULE Spec2Model ----
(***************************************************************************)
(* Task registration and invocation protocol of bindings/python/legion.py. *)
(*                                                                         *)
(* Registrar: Task.__init__, Task.register and task(body), together with   *)
(* the module-level registry _local_tasks.                                 *)
(* Adapter:   the closure built by Task.make_wrapper, which brackets the   *)
(* TaskBody between legion_task_preamble and legion_task_postamble.        *)
(*                                                                         *)
(* Spec     : one host thread that constructs Tasks, registers them and    *)
(*            runs wrapper invocations, one call at a time.                *)
(* SpecConc : the run phase after start-up, the registry already filled,   *)
(*            with wrappers invoked concurrently on MaxInv threads.        *)
(***************************************************************************)
EXTENDS Integers, Sequences, FiniteSets, TLC

\* ------------------------------------------------------------------ bounds
MaxTasks == 2
MaxInv == 2
MaxRegions == 2

\* ------------------------------------------------------------ value spaces
NULL == 0

TaskObjs == 1..MaxTasks
Invs == 1..MaxInv
MainThread == CHOOSE i \in Invs : \A j \in Invs : i <= j

\* A TaskBody is a host callable; the binding reads its __module__ and __name__.
\* The third body is a callable object without a __name__ attribute
\* (functools.partial): reading body.__name__ raises AttributeError.
NoAttr == ""
NoBody == [module |-> NoAttr, name |-> NoAttr]
Bodies ==
  { [module |-> "mod", name |-> "hello"],
    [module |-> "mod", name |-> "world"],
    [module |-> "functools", name |-> NoAttr] }

HasName(b) == b.name # NoAttr

\* '%s.%s' % (module, name)
QualifiedName(b) == <<b.module, ".", b.name>>

\* Variant of the cast: the id is cast to a 16 bit unsigned.
CastTaskId16(v) == <<0, v % (2^16)>>

\* ffi.cast("legion_task_id_t", v): legion_task_id_t is a 32 bit unsigned,
\* kept here as its <<high, low>> 16 bit halves.
CastTaskId(v) == <<(v \div (2^16)) % (2^16), v % (2^16)>>
AUTO_GENERATE_ID == <<2^16 - 1, 2^16 - 1>>

PY_PROC == "PY_PROC"

\* What the runtime hands to an invocation: raw argument buffers, processor
\* handles, and the InvocationContext the preamble reports.
ArgBuffers == { <<>>, <<65>> }
Procs == { 51 }
RegionHandles == { 41, 42 }
RECURSIVE SeqsUpTo(_, _)
SeqsUpTo(S, n) ==
  IF n = 0 THEN { <<>> }
  ELSE LET shorter == SeqsUpTo(S, n - 1)
       IN  shorter \cup { Append(s, x) : s \in { t \in shorter : Len(t) = n - 1 }, x \in S }
RegionArrays == SeqsUpTo(RegionHandles, MaxRegions)
InvocationContexts ==
  { [task |-> 11, context |-> 21, runtime |-> 31],
    [task |-> 12, context |-> 22, runtime |-> 32] }

\* Return behaviours of a TaskBody: no value, some value, or an exception.
BodyOutcomes == { "None", "value", "raise" }

\* ------------------------------------------------------------------- state
VARIABLES
  taskBody,               \* Task objects: taskBody[t] is Task t's body slot (NoBody: not constructed)
  _local_tasks,           \* the registry: Task object -> task id
  owned,                  \* Task objects the host program holds (made by Task(body))
  wrappers,               \* Task objects whose wrapper task() has returned
  nextId,                 \* native runtime: next dynamic task id
  nativeSets,             \* native runtime: the constraint sets of the running register
  variant_call,           \* native runtime: arguments of the running register's variant call
  rpc,                    \* register: position
  self,                   \* register: the Task being registered
  viaTask,                \* register: called from task(body)
  execution_constraints,  \* register: local
  layout_constraints,     \* register: local
  options,                \* register: local
  task_id,                \* register: local
  regLog,                 \* register: native calls made so far, in order
  regResult,              \* register: [kind, value] outcome of the call
  pc,                     \* wrapper: position, per invocation
  wtask,                  \* wrapper: the Task whose wrapper runs, per invocation
  args,                   \* runtime: the ArgumentBuffer of the invocation
  proc,                   \* runtime: the processor handle of the invocation
  frame,                  \* wrapper: locals, per call frame
  calls,                  \* wrapper: calls made so far, in order, per invocation
  obs                     \* what the preamble, the TaskBody and the postamble were passed / returned

registrarVars == <<taskBody, owned, _local_tasks, wrappers, nextId, nativeSets, variant_call,
                   rpc, self, viaTask, execution_constraints, layout_constraints,
                   options, task_id, regLog, regResult>>
registerLocals == <<execution_constraints, layout_constraints, options, task_id>>
wrapperVars == <<pc, wtask, args, proc, frame, calls, obs>>
vars == <<registrarVars, wrapperVars>>

\* ---------------------------------------------------------------- registrar
NoSet == [created |-> 0, destroyed |-> 0, constraints |-> <<>>]
NoSets == [execution |-> NoSet, layout |-> NoSet]
NoOptions == [leaf |-> TRUE, inner |-> TRUE, idempotent |-> TRUE, set |-> FALSE]
NoVariantCall ==
  [made |-> FALSE, id |-> NULL, name |-> <<>>, global |-> FALSE,
   execution |-> <<>>, layout |-> <<>>, options |-> NoOptions,
   module |-> NoAttr, function |-> NoAttr, userdata |-> NULL, userlen |-> 0,
   result |-> NULL]
NoResult == [kind |-> "none", value |-> NULL]
Unbound == "unbound"

Constructed == { t \in TaskObjs : taskBody[t] # NoBody }
\* The wrappers that can be called: t.wrapper of a held Task, or a wrapper task() returned.
Invocable == owned \cup wrappers
HostIdle == rpc = "idle" /\ \A i \in Invs : pc[i] = "idle"

\* A fresh register frame for Task t.
EnterRegister(t, fromTask) ==
  /\ rpc' = "assert"
  /\ self' = t
  /\ viaTask' = fromTask
  /\ execution_constraints' = Unbound
  /\ layout_constraints' = Unbound
  /\ options' = NoOptions
  /\ task_id' = NULL
  /\ regLog' = <<>>
  /\ regResult' = NoResult
  /\ nativeSets' = NoSets
  /\ variant_call' = NoVariantCall

\* Task(body): __init__ stores the body and builds the wrapper.
Task_init(b) ==
  /\ HostIdle
  /\ \E t \in TaskObjs :
       /\ taskBody[t] = NoBody
       /\ \A u \in TaskObjs : u < t => taskBody[u] # NoBody
       /\ taskBody' = [taskBody EXCEPT ![t] = b]
       /\ owned' = owned \cup {t}
  /\ UNCHANGED <<_local_tasks, wrappers, nextId, nativeSets, variant_call, rpc, self,
                 viaTask, registerLocals, regLog, regResult, wrapperVars>>

\* task(body): t = Task(body); t.register() is entered. t is a local of
\* task: the host program never holds the Task object itself.
task_call(b) ==
  /\ HostIdle
  /\ \E t \in TaskObjs :
       /\ taskBody[t] = NoBody
       /\ \A u \in TaskObjs : u < t => taskBody[u] # NoBody
       /\ taskBody' = [taskBody EXCEPT ![t] = b]
       /\ EnterRegister(t, TRUE)
  /\ UNCHANGED <<owned, _local_tasks, wrappers, nextId, wrapperVars>>

\* t.register() called directly on a Task object the host program holds.
register_call(t) ==
  /\ HostIdle
  /\ t \in owned
  /\ EnterRegister(t, FALSE)
  /\ UNCHANGED <<taskBody, owned, _local_tasks, wrappers, nextId, wrapperVars>>

\* An exception leaves register at the current statement.
Raise(err) ==
  /\ rpc' = "raised"
  /\ regResult' = [kind |-> err, value |-> NULL]

\* Variant of the duplicate check: the assertion is left out.
DuplicateCheckOmitted == TRUE

\* assert(self not in _local_tasks)
DuplicateCheckPasses == self \notin DOMAIN _local_tasks

register_assert ==
  /\ rpc = "assert"
  /\ IF DuplicateCheckPasses
       THEN rpc' = "create_execution" /\ UNCHANGED regResult
       ELSE Raise("AssertionError")
  /\ UNCHANGED <<taskBody, owned, _local_tasks, wrappers, nextId, nativeSets, variant_call, self,
                 viaTask, registerLocals, regLog, wrapperVars>>

\* Variant of the first native call: the registry entry is written ahead of
\* the registration, before any native call has succeeded.
register_create_execution_recording(ok) ==
  /\ rpc = "create_execution"
  /\ regLog' = Append(regLog, "execution_constraint_set_create")
  /\ _local_tasks' = [u \in DOMAIN _local_tasks \cup {self} |->
                        IF u = self THEN NULL ELSE _local_tasks[u]]
  /\ IF ok
       THEN /\ nativeSets' = [nativeSets EXCEPT !.execution.created = @ + 1]
            /\ execution_constraints' = "execution"
            /\ rpc' = "add_processor"
            /\ UNCHANGED regResult
       ELSE /\ Raise("NativeCallFailure")
            /\ UNCHANGED <<nativeSets, execution_constraints>>
  /\ UNCHANGED <<taskBody, owned, wrappers, nextId, variant_call, self, viaTask,
                 layout_constraints, options, task_id, wrapperVars>>

\* execution_constraints = c.legion_execution_constraint_set_create()
register_create_execution(ok) ==
  /\ rpc = "create_execution"
  /\ regLog' = Append(regLog, "execution_constraint_set_create")
  /\ IF ok
       THEN /\ nativeSets' = [nativeSets EXCEPT !.execution.created = @ + 1]
            /\ execution_constraints' = "execution"
            /\ rpc' = "add_processor"
            /\ UNCHANGED regResult
       ELSE /\ Raise("NativeCallFailure")
            /\ UNCHANGED <<nativeSets, execution_constraints>>
  /\ UNCHANGED <<taskBody, owned, _local_tasks, wrappers, nextId, variant_call, self, viaTask,
                 layout_constraints, options, task_id, wrapperVars>>

\* c.legion_execution_constraint_set_add_processor_constraint(execution_constraints, c.PY_PROC)
register_add_processor(ok) ==
  /\ rpc = "add_processor"
  /\ regLog' = Append(regLog, "execution_constraint_set_add_processor_constraint")
  /\ IF ok
       THEN /\ nativeSets' = [nativeSets EXCEPT
                               ![execution_constraints].constraints = Append(@, PY_PROC)]
            /\ rpc' = "create_layout"
            /\ UNCHANGED regResult
       ELSE /\ Raise("NativeCallFailure")
            /\ UNCHANGED nativeSets
  /\ UNCHANGED <<taskBody, owned, _local_tasks, wrappers, nextId, variant_call, self, viaTask,
                 registerLocals, wrapperVars>>

\* layout_constraints = c.legion_task_layout_constraint_set_create()
register_create_layout(ok) ==
  /\ rpc = "create_layout"
  /\ regLog' = Append(regLog, "task_layout_constraint_set_create")
  /\ IF ok
       THEN /\ nativeSets' = [nativeSets EXCEPT !.layout.created = @ + 1]
            /\ layout_constraints' = "layout"
            /\ rpc' = "options"
            /\ UNCHANGED regResult
       ELSE /\ Raise("NativeCallFailure")
            /\ UNCHANGED <<nativeSets, layout_constraints>>
  /\ UNCHANGED <<taskBody, owned, _local_tasks, wrappers, nextId, variant_call, self, viaTask,
                 execution_constraints, options, task_id, wrapperVars>>

\* options = ffi.new(...); leaf = inner = idempotent = False
register_options ==
  /\ rpc = "options"
  /\ options' = [leaf |-> FALSE, inner |-> FALSE, idempotent |-> FALSE, set |-> TRUE]
  /\ rpc' = "register_variant"
  /\ UNCHANGED <<taskBody, owned, _local_tasks, wrappers, nextId, nativeSets, variant_call, self,
                 viaTask, execution_constraints, layout_constraints, task_id, regLog,
                 regResult, wrapperVars>>

\* The native registration entry point: with the auto-generate sentinel the
\* runtime assigns the next unused dynamic task id.
NativeRegisterVariant(id) == IF id = AUTO_GENERATE_ID THEN nextId ELSE id

\* task_id = c.legion_runtime_register_task_variant_python_source(...)
\* The arguments are evaluated first: body.__name__ raises for a body
\* without that attribute, and then the native call is never made.
register_variant(ok) ==
  /\ rpc = "register_variant"
  /\ LET body == taskBody[self]
         id == CastTaskId(-1)
     IN  IF ~HasName(body)
           THEN /\ Raise("AttributeError")
                /\ UNCHANGED <<regLog, variant_call, task_id, nextId>>
           ELSE /\ regLog' = Append(regLog, "runtime_register_task_variant_python_source")
                /\ variant_call' =
                     [made |-> TRUE, id |-> id, name |-> QualifiedName(body),
                      global |-> FALSE,
                      execution |-> nativeSets[execution_constraints].constraints,
                      layout |-> nativeSets[layout_constraints].constraints,
                      options |-> options,
                      module |-> body.module, function |-> body.name,
                      userdata |-> NULL, userlen |-> 0,
                      result |-> IF ok THEN NativeRegisterVariant(id) ELSE NULL]
                /\ IF ok
                     THEN /\ task_id' = NativeRegisterVariant(id)
                          /\ nextId' = nextId + 1
                          /\ rpc' = "destroy_execution"
                          /\ UNCHANGED regResult
                     ELSE /\ Raise("NativeCallFailure")
                          /\ UNCHANGED <<task_id, nextId>>
  /\ UNCHANGED <<taskBody, owned, _local_tasks, wrappers, nativeSets, self, viaTask,
                 execution_constraints, layout_constraints, options, wrapperVars>>

\* c.legion_execution_constraint_set_destroy(execution_constraints)
register_destroy_execution ==
  /\ rpc = "destroy_execution"
  /\ regLog' = Append(regLog, "execution_constraint_set_destroy")
  /\ nativeSets' = [nativeSets EXCEPT ![execution_constraints].destroyed = @ + 1]
  /\ rpc' = "destroy_layout"
  /\ UNCHANGED <<taskBody, owned, _local_tasks, wrappers, nextId, variant_call, self, viaTask,
                 registerLocals, regResult, wrapperVars>>

\* Variant of the second release: the layout set is never destroyed.
register_destroy_layout_omitted ==
  /\ rpc = "destroy_layout"
  /\ rpc' = "record"
  /\ UNCHANGED <<taskBody, owned, _local_tasks, wrappers, nextId, nativeSets, variant_call,
                 self, viaTask, registerLocals, regLog, regResult, wrapperVars>>

\* c.legion_task_layout_constraint_set_destroy(layout_constraints)
register_destroy_layout ==
  /\ rpc = "destroy_layout"
  /\ regLog' = Append(regLog, "task_layout_constraint_set_destroy")
  /\ nativeSets' = [nativeSets EXCEPT ![layout_constraints].destroyed = @ + 1]
  /\ rpc' = "record"
  /\ UNCHANGED <<taskBody, owned, _local_tasks, wrappers, nextId, variant_call, self, viaTask,
                 registerLocals, regResult, wrapperVars>>

\* Variant of the registry write: the requested id (the unassigned one) is
\* stored instead of the id the native call returned.
RecordRequestedId(registry, t, id) ==
  [u \in DOMAIN registry \cup {t} |-> IF u = t THEN NULL ELSE registry[u]]

\* _local_tasks[self] = task_id
RecordTask(registry, t, id) ==
  [u \in DOMAIN registry \cup {t} |-> IF u = t THEN id ELSE registry[u]]

\* _local_tasks[self] = task_id; return task_id
register_record ==
  /\ rpc = "record"
  /\ _local_tasks' = RecordTask(_local_tasks, self, task_id)
  /\ regResult' = [kind |-> "returned", value |-> task_id]
  /\ rpc' = "returned"
  /\ UNCHANGED <<taskBody, owned, wrappers, nextId, nativeSets, variant_call, self, viaTask,
                 registerLocals, regLog, wrapperVars>>

\* The caller of register resumes: task() returns t.wrapper after a register
\* that returned; an exception passes through task() and nothing is returned.
WrapperReturned(t) == wrappers \cup {t}

\* Variant of task(): the wrapper is handed out whatever register did.
TaskReturnsWrapperAlways == viaTask

\* return t.wrapper is reached only when t.register() returned.
TaskReturnsWrapper == viaTask /\ rpc = "returned"

register_exit ==
  /\ rpc \in {"returned", "raised"}
  /\ rpc' = "idle"
  /\ wrappers' = IF TaskReturnsWrapper THEN WrapperReturned(self) ELSE wrappers
  /\ self' = NULL
  /\ viaTask' = FALSE
  /\ execution_constraints' = Unbound
  /\ layout_constraints' = Unbound
  /\ options' = NoOptions
  /\ task_id' = NULL
  /\ regLog' = <<>>
  /\ regResult' = NoResult
  /\ nativeSets' = NoSets
  /\ variant_call' = NoVariantCall
  /\ UNCHANGED <<taskBody, owned, _local_tasks, nextId, wrapperVars>>

\* ------------------------------------------------------------------ adapter
NoValue == "unbound"
NoFrame ==
  [arg_ptr |-> <<>>, arg_size |-> 0, task |-> NULL, raw_regions |-> <<>>,
   num_regions |-> 0, context |-> NULL, runtime |-> NULL, regions |-> <<>>,
   value |-> NoValue]
NoObs == [preamble_in |-> <<>>, preamble_out |-> <<>>, body_in |-> <<>>, postamble_in |-> <<>>]

\* Variant of the frame: the locals are module-level, one set for all calls.
SharedFrame(i) == MainThread

\* The locals of wrapper live in the frame of the call: every invocation has its own.
FrameOf(i) == i

\* ffi.new("char[]", bytes(args)): a copy of the bytes, NUL terminated.
NewCharArray(a) == Append(a, 0)

\* Variant of the size: the length of the NUL terminated copy.
ArgSizeOfCopy(a) == Len(a) + 1

\* arg_size = len(args)
ArgSize(a) == Len(a)

\* The runtime invokes the wrapper of Task t (args, user_data, proc); the
\* wrapper copies the buffer and allocates the zero-initialised out cells.
wrapper_call(i, t, a, p) ==
  /\ pc[i] = "idle"
  /\ rpc = "idle"
  /\ t \in Invocable
  /\ pc' = [pc EXCEPT ![i] = "allocated"]
  /\ wtask' = [wtask EXCEPT ![i] = t]
  /\ args' = [args EXCEPT ![i] = a]
  /\ proc' = [proc EXCEPT ![i] = p]
  /\ frame' = [frame EXCEPT ![FrameOf(i)] =
                 [NoFrame EXCEPT !.arg_ptr = NewCharArray(a), !.arg_size = ArgSize(a)]]
  /\ calls' = [calls EXCEPT ![i] = <<>>]
  /\ obs' = [obs EXCEPT ![i] = NoObs]
  /\ UNCHANGED registrarVars

\* legion_task_preamble: the runtime reports the InvocationContext of this
\* invocation through the out parameters; the count is the array's length.
NativePreamble(ic, rr) ==
  [task |-> ic.task, raw_regions |-> rr, num_regions |-> Len(rr),
   context |-> ic.context, runtime |-> ic.runtime]

\* Variant of the preamble step: the handshake is skipped.
wrapper_preamble_omitted(i, ic, rr) ==
  /\ pc[i] = "allocated"
  /\ pc' = [pc EXCEPT ![i] = "preamble_done"]
  /\ UNCHANGED <<registrarVars, wtask, args, proc, frame, calls, obs>>

\* c.legion_task_preamble(arg_ptr, arg_size, proc, task, raw_regions, num_regions, context, runtime)
wrapper_preamble(i, ic, rr) ==
  /\ pc[i] = "allocated"
  /\ LET f == frame[FrameOf(i)]
         out == NativePreamble(ic, rr)
     IN  /\ obs' = [obs EXCEPT ![i].preamble_in = <<f.arg_ptr, f.arg_size, proc[i]>>,
                               ![i].preamble_out = <<out.task, out.raw_regions, out.num_regions,
                                                     out.context, out.runtime>>]
         /\ frame' = [frame EXCEPT ![FrameOf(i)] =
                        [f EXCEPT !.task = out.task, !.raw_regions = out.raw_regions,
                                  !.num_regions = out.num_regions, !.context = out.context,
                                  !.runtime = out.runtime]]
  /\ calls' = [calls EXCEPT ![i] = Append(@, "legion_task_preamble")]
  /\ pc' = [pc EXCEPT ![i] = "preamble_done"]
  /\ UNCHANGED <<registrarVars, wtask, args, proc>>

\* regions = []; for i in xrange(num_regions[0]): regions.append(raw_regions[0][i])
RECURSIVE AppendRegions(_, _, _, _)
AppendRegions(regions, raw, k, n) ==
  IF k >= n THEN regions
  ELSE AppendRegions(Append(regions, raw[k + 1]), raw, k + 1, n)

\* Variant of the loop: the regions are collected back to front.
MaterializeReversed(raw, n) == [k \in 1..n |-> raw[n + 1 - k]]

Materialize(raw, n) == AppendRegions(<<>>, raw, 0, n)

\* value = body(task[0], regions, context[0], runtime[0]): the call is made.
wrapper_body_call(i) ==
  /\ pc[i] = "preamble_done"
  /\ LET f == frame[FrameOf(i)]
         regions == Materialize(f.raw_regions, f.num_regions)
     IN  /\ frame' = [frame EXCEPT ![FrameOf(i)].regions = regions]
         /\ obs' = [obs EXCEPT ![i].body_in = <<f.task, regions, f.context, f.runtime>>]
  /\ calls' = [calls EXCEPT ![i] = Append(@, "body")]
  /\ pc' = [pc EXCEPT ![i] = "in_body"]
  /\ UNCHANGED <<registrarVars, wtask, args, proc>>

\* Variant of the failure path: the postamble runs in a finally clause.
wrapper_body_raises_signalled(i) ==
  /\ pc[i] = "in_body"
  /\ LET f == frame[i]
     IN  obs' = [obs EXCEPT ![i].postamble_in = <<f.runtime, f.context, NULL, 0>>]
  /\ calls' = [calls EXCEPT ![i] = @ \o <<"body raised", "legion_task_postamble">>]
  /\ pc' = [pc EXCEPT ![i] = "raised"]
  /\ UNCHANGED <<registrarVars, wtask, args, proc, frame>>

\* The TaskBody raises: nothing in wrapper catches it.
wrapper_body_raises(i) ==
  /\ pc[i] = "in_body"
  /\ calls' = [calls EXCEPT ![i] = Append(@, "body raised")]
  /\ pc' = [pc EXCEPT ![i] = "raised"]
  /\ UNCHANGED <<registrarVars, wtask, args, proc, frame, obs>>

\* The TaskBody returns v, bound to value.
wrapper_body_returns(i, v) ==
  /\ pc[i] = "in_body"
  /\ v \in BodyOutcomes \ {"raise"}
  /\ frame' = [frame EXCEPT ![FrameOf(i)].value = v]
  /\ calls' = [calls EXCEPT ![i] = Append(@, "body returned")]
  /\ pc' = [pc EXCEPT ![i] = "assert"]
  /\ UNCHANGED <<registrarVars, wtask, args, proc, obs>>

\* Variant of the return check: the value is not looked at.
ValueUnchecked(v) == TRUE

\* assert(value is None)
ValueIsNone(v) == v = "None"

wrapper_assert(i) ==
  /\ pc[i] = "assert"
  /\ IF ValueIsNone(frame[FrameOf(i)].value)
       THEN /\ pc' = [pc EXCEPT ![i] = "postamble"]
            /\ UNCHANGED calls
       ELSE /\ pc' = [pc EXCEPT ![i] = "raised"]
            /\ calls' = [calls EXCEPT ![i] = Append(@, "assertion failed")]
  /\ UNCHANGED <<registrarVars, wtask, args, proc, frame, obs>>

\* Variant of the postamble step: the wrapper returns without the call.
wrapper_postamble_omitted(i) ==
  /\ pc[i] = "postamble"
  /\ pc' = [pc EXCEPT ![i] = "done"]
  /\ UNCHANGED <<registrarVars, wtask, args, proc, frame, calls, obs>>

\* c.legion_task_postamble(runtime[0], context[0], ffi.NULL, 0), then wrapper returns.
wrapper_postamble(i) ==
  /\ pc[i] = "postamble"
  /\ LET f == frame[FrameOf(i)]
     IN  obs' = [obs EXCEPT ![i].postamble_in = <<f.runtime, f.context, NULL, 0>>]
  /\ calls' = [calls EXCEPT ![i] = Append(@, "legion_task_postamble")]
  /\ pc' = [pc EXCEPT ![i] = "done"]
  /\ UNCHANGED <<registrarVars, wtask, args, proc, frame>>

\* Control is back in the runtime; the frame is gone.
wrapper_exit(i) ==
  /\ pc[i] \in {"done", "raised"}
  /\ pc' = [pc EXCEPT ![i] = "idle"]
  /\ wtask' = [wtask EXCEPT ![i] = NULL]
  /\ args' = [args EXCEPT ![i] = <<>>]
  /\ proc' = [proc EXCEPT ![i] = NULL]
  /\ frame' = [frame EXCEPT ![FrameOf(i)] = NoFrame]
  /\ calls' = [calls EXCEPT ![i] = <<>>]
  /\ obs' = [obs EXCEPT ![i] = NoObs]
  /\ UNCHANGED registrarVars

\* ----------------------------------------------------------- specifications
IdleWrappers ==
  /\ pc = [i \in Invs |-> "idle"]
  /\ wtask = [i \in Invs |-> NULL]
  /\ args = [i \in Invs |-> <<>>]
  /\ proc = [i \in Invs |-> NULL]
  /\ frame = [i \in Invs |-> NoFrame]
  /\ calls = [i \in Invs |-> <<>>]
  /\ obs = [i \in Invs |-> NoObs]

IdleRegister ==
  /\ rpc = "idle"
  /\ self = NULL
  /\ viaTask = FALSE
  /\ execution_constraints = Unbound
  /\ layout_constraints = Unbound
  /\ options = NoOptions
  /\ task_id = NULL
  /\ regLog = <<>>
  /\ regResult = NoResult
  /\ nativeSets = NoSets
  /\ variant_call = NoVariantCall

\* Module import: _local_tasks = {}.
Init ==
  /\ taskBody = [t \in TaskObjs |-> NoBody]
  /\ owned = {}
  /\ _local_tasks = <<>>
  /\ wrappers = {}
  /\ nextId = 1
  /\ IdleRegister
  /\ IdleWrappers

Registrar ==
  \/ \E b \in Bodies : Task_init(b)
  \/ \E b \in Bodies : task_call(b)
  \/ \E t \in TaskObjs : register_call(t)
  \/ register_assert
  \/ \E ok \in BOOLEAN : register_create_execution(ok)
  \/ \E ok \in BOOLEAN : register_add_processor(ok)
  \/ \E ok \in BOOLEAN : register_create_layout(ok)
  \/ register_options
  \/ \E ok \in BOOLEAN : register_variant(ok)
  \/ register_destroy_execution
  \/ register_destroy_layout
  \/ register_record
  \/ register_exit

Adapter(i, buffers, arrays) ==
  \/ \E t \in TaskObjs, a \in buffers, p \in Procs : wrapper_call(i, t, a, p)
  \/ \E ic \in InvocationContexts, rr \in arrays : wrapper_preamble(i, ic, rr)
  \/ wrapper_body_call(i)
  \/ wrapper_body_raises(i)
  \/ \E v \in BodyOutcomes : wrapper_body_returns(i, v)
  \/ wrapper_assert(i)
  \/ wrapper_postamble(i)
  \/ wrapper_exit(i)

Next == Registrar \/ Adapter(MainThread, ArgBuffers, RegionArrays)

Spec == Init /\ [][Next]_vars

\* The run phase: start-up has executed task(hello); task(world), and the
\* runtime now dispatches the two registered wrappers on any of its threads.
StartupDone ==
  /\ taskBody = [t \in TaskObjs |->
                   IF t = 1 THEN [module |-> "mod", name |-> "hello"]
                   ELSE IF t = 2 THEN [module |-> "mod", name |-> "world"]
                   ELSE NoBody]
  /\ owned = {}
  /\ _local_tasks = (1 :> 1) @@ (2 :> 2)
  /\ wrappers = {1, 2}
  /\ nextId = 3
  /\ IdleRegister
  /\ IdleWrappers

\* Concurrent invocations are driven with an empty argument buffer and with
\* the region arrays of no region and of all regions in native order.
ConcBuffers == { <<>> }
ConcArrays == { <<>>, <<41, 42>> }

NextConc == \E i \in Invs : Adapter(i, ConcBuffers, ConcArrays)

SpecConc == StartupDone /\ [][NextConc]_vars

\* ------------------------------------------------------------------ claims
Count(seq, x) == Cardinality({ k \in 1..Len(seq) : seq[k] = x })
Position(seq, x) == CHOOSE k \in 1..Len(seq) : seq[k] = x
Locals(i) == frame[FrameOf(i)]
Ended(i) == pc[i] \in {"done", "raised"}
RegisterEnded == rpc \in {"returned", "raised"}

\* C1: registering a TaskBody identity that is already registered fails and
\* adds no entry: the registry never holds two entries for the same TaskBody,
\* and no register gets past its duplicate check for a body that already has
\* an entry.
C1_NoDuplicateRegistration ==
  /\ \A t \in DOMAIN _local_tasks : \A u \in DOMAIN _local_tasks :
       taskBody[t] = taskBody[u] => t = u
  /\ rpc \notin {"idle", "assert", "raised"} =>
       \A u \in DOMAIN _local_tasks \ {self} : taskBody[u] # taskBody[self]

\* C2: when the TaskBody returned no value, the postamble is called exactly
\* once, after the TaskBody returned and before the wrapper returns.
C2_PostambleOnceAfterBody ==
  \A i \in Invs :
    LET c == calls[i]
    IN  /\ Count(c, "legion_task_postamble") <= 1
        /\ Count(c, "legion_task_postamble") = 1 =>
             /\ Count(c, "body returned") = 1
             /\ Position(c, "body returned") < Position(c, "legion_task_postamble")
        /\ Count(c, "body returned") = 1 /\ Locals(i).value = "None" /\ Ended(i) =>
             /\ pc[i] = "done"
             /\ Count(c, "legion_task_postamble") = 1
             /\ c[Len(c)] = "legion_task_postamble"

C2_Witness ==
  \E i \in Invs : pc[i] = "done" /\ Locals(i).value = "None"

\* C3: when the TaskBody returned a value other than None, the wrapper fails
\* on its assertion and the postamble is not called in that invocation.
C3_ValueFailsBeforePostamble ==
  \A i \in Invs :
    Count(calls[i], "body returned") = 1 /\ Locals(i).value = "value" =>
      /\ pc[i] \in {"assert", "raised"}
      /\ pc[i] = "raised" => calls[i][Len(calls[i])] = "assertion failed"
      /\ Count(calls[i], "legion_task_postamble") = 0
      /\ obs[i].postamble_in = <<>>

C3_Witness ==
  \E i \in Invs : pc[i] = "raised" /\ Locals(i).value = "value"

\* C4: when the TaskBody raises, the exception leaves the wrapper and the
\* postamble is never called: the invocation ends with the preamble done and
\* the completion unsignalled.
C4_RaisePropagatesUnsignalled ==
  \A i \in Invs :
    Count(calls[i], "body raised") > 0 =>
      /\ pc[i] = "raised"
      /\ calls[i] = <<"legion_task_preamble", "body", "body raised">>
      /\ obs[i].preamble_out # <<>>
      /\ obs[i].postamble_in = <<>>

C4_Witness ==
  \E i \in Invs : pc[i] = "raised" /\ Count(calls[i], "body raised") = 1

\* C5: a register that created both constraint sets has destroyed each of
\* them exactly once when it returns or fails.
C5_ConstraintSetsReleased ==
  RegisterEnded /\ nativeSets.execution.created = 1 /\ nativeSets.layout.created = 1 =>
    /\ nativeSets.execution.destroyed = 1
    /\ nativeSets.layout.destroyed = 1

\* C6: the preamble is called exactly once and is the first call of the
\* invocation; the TaskBody and the postamble are reached only after it, and
\* what they are passed was read after the preamble had filled it in.
C6_PreambleFirst ==
  \A i \in Invs :
    LET c == calls[i]
    IN  /\ Count(c, "legion_task_preamble") <= 1
        /\ pc[i] \notin {"idle", "allocated"} =>
             /\ Count(c, "legion_task_preamble") = 1
             /\ c[1] = "legion_task_preamble"
             /\ obs[i].preamble_out # <<>>
        /\ pc[i] \in {"idle", "allocated"} =>
             /\ c = <<>>
             /\ obs[i].body_in = <<>>
             /\ obs[i].postamble_in = <<>>

C6_Witness ==
  \E i \in Invs : pc[i] = "in_body" /\ calls[i] = <<"legion_task_preamble", "body">>

\* C7: the sequence passed to the TaskBody has the preamble's region count n
\* as its length and the native array's element i at index i; with n = 0 it is
\* empty and the postamble is called as in any invocation, with NULL and 0.
C7_RegionsInNativeOrder ==
  \A i \in Invs :
    obs[i].body_in # <<>> =>
      LET raw == obs[i].preamble_out[2]
          n == obs[i].preamble_out[3]
          passed == obs[i].body_in[2]
      IN  /\ Len(passed) = n
          /\ \A k \in 1..n : passed[k] = raw[k]
          /\ n = 0 => passed = <<>>
          /\ n = 0 /\ pc[i] = "done" =>
               /\ Count(calls[i], "legion_task_postamble") = 1
               /\ obs[i].postamble_in[3] = NULL
               /\ obs[i].postamble_in[4] = 0
          /\ n = 0 /\ Ended(i) /\ Locals(i).value = "None" => pc[i] = "done"

C7_Witness ==
  \E i \in Invs :
    /\ pc[i] = "done"
    /\ Len(obs[i].body_in[2]) >= 2
    /\ obs[i].body_in[2][1] # obs[i].body_in[2][2]

C7_WitnessNoRegions ==
  \E i \in Invs : pc[i] = "done" /\ obs[i].preamble_out[3] = 0

\* C8: the registry is empty at start and only grows: a step changes it only
\* as the write of a register that then returns, which adds one entry for a
\* Task that had none and leaves every other entry as it was; wrapper steps
\* leave it unchanged.
RegistryStep ==
  \/ _local_tasks' = _local_tasks
  \/ /\ rpc = "record" /\ rpc' = "returned"
     /\ self \notin DOMAIN _local_tasks
     /\ DOMAIN _local_tasks' = DOMAIN _local_tasks \cup {self}
     /\ \A u \in DOMAIN _local_tasks : _local_tasks'[u] = _local_tasks[u]
     /\ pc' = pc

C8_RegistryOnlyGrows == (_local_tasks = <<>>) /\ [][RegistryStep]_vars

C8_Witness ==
  /\ Cardinality(DOMAIN _local_tasks) >= 2
  /\ \E i \in Invs : pc[i] = "raised"

\* C9: a register that returns has returned the id the native call produced
\* and recorded that id for its Task, an id no earlier registration holds; the
\* ids of the registry are pairwise distinct.
C9_HandlesDistinct ==
  /\ \A t \in DOMAIN _local_tasks : \A u \in DOMAIN _local_tasks :
       _local_tasks[t] = _local_tasks[u] => t = u
  /\ rpc = "returned" =>
       /\ variant_call.made
       /\ regResult = [kind |-> "returned", value |-> variant_call.result]
       /\ self \in DOMAIN _local_tasks
       /\ _local_tasks[self] = variant_call.result
       /\ \A u \in DOMAIN _local_tasks \ {self} : _local_tasks[u] # variant_call.result

C9_Witness ==
  rpc = "returned" /\ Cardinality(DOMAIN _local_tasks) >= 2

\* C10: under concurrent invocations, every invocation passes to its TaskBody
\* and to its postamble the task descriptor, context and runtime handles that
\* its own preamble call returned.
C10_OwnHandles ==
  \A i \in Invs :
    /\ obs[i].body_in # <<>> =>
         /\ obs[i].body_in[1] = obs[i].preamble_out[1]
         /\ obs[i].body_in[3] = obs[i].preamble_out[4]
         /\ obs[i].body_in[4] = obs[i].preamble_out[5]
    /\ obs[i].postamble_in # <<>> =>
         /\ obs[i].postamble_in[1] = obs[i].preamble_out[5]
         /\ obs[i].postamble_in[2] = obs[i].preamble_out[4]

C10_Witness ==
  \E i \in Invs : \E j \in Invs :
    /\ i # j
    /\ pc[i] = "done" /\ pc[j] = "done"
    /\ wtask[i] = wtask[j]
    /\ obs[i].preamble_out[4] # obs[j].preamble_out[4]

\* C11: task(body) enters register once, for the Task it has just built, and
\* hands out the wrapper only when that register returned: a register that
\* fails adds no wrapper, every wrapper handed out belongs to a Task of the
\* registry, and a wrapper obtained through task() runs only for a
\* registered Task.
WrappersRegistered ==
  /\ wrappers \subseteq DOMAIN _local_tasks
  /\ wrappers \cap owned = {}
  /\ rpc = "raised" => self \notin wrappers
  /\ \A i \in Invs : pc[i] # "idle" /\ wtask[i] \notin owned =>
       wtask[i] \in DOMAIN _local_tasks

TaskStep ==
  /\ wrappers' # wrappers =>
       /\ rpc = "returned" /\ viaTask /\ rpc' = "idle"
       /\ self \in DOMAIN _local_tasks
       /\ wrappers' = wrappers \cup {self}
  /\ rpc = "raised" => wrappers' = wrappers
  /\ rpc = "idle" /\ rpc' = "assert" =>
       IF viaTask'
         THEN taskBody[self'] = NoBody /\ taskBody'[self'] # NoBody
         ELSE self' \in owned

C11_WrapperOnlyAfterRegistration == []WrappersRegistered /\ [][TaskStep]_vars

C11_Witness ==
  /\ \E i \in Invs : pc[i] = "in_body" /\ wtask[i] \in wrappers
  /\ \E t \in Constructed : t \notin owned /\ t \notin wrappers

\* C12: register makes its native calls in one order: after the duplicate
\* check, the two creations with the processor constraint, then the variant
\* registration, then the two destructions, and the registry write last;
\* no set is destroyed before the variant call has returned, and the entry
\* is written only when both sets are destroyed.
RegisterOrder ==
  << "execution_constraint_set_create",
     "execution_constraint_set_add_processor_constraint",
     "task_layout_constraint_set_create",
     "runtime_register_task_variant_python_source",
     "execution_constraint_set_destroy",
     "task_layout_constraint_set_destroy" >>

IsPrefix(a, b) == Len(a) <= Len(b) /\ \A k \in 1..Len(a) : a[k] = b[k]

C12_RegisterOrder ==
  /\ IsPrefix(regLog, RegisterOrder)
  /\ rpc = "assert" => regLog = <<>>
  /\ nativeSets.execution.destroyed + nativeSets.layout.destroyed > 0 =>
       /\ variant_call.made
       /\ task_id = variant_call.result
       /\ task_id # NULL
  /\ rpc = "returned" => regLog = RegisterOrder
  /\ rpc \notin {"idle", "assert"} /\ regResult.kind # "AssertionError"
       /\ self \in DOMAIN _local_tasks =>
       /\ regLog = RegisterOrder
       /\ nativeSets.execution.destroyed = 1
       /\ nativeSets.layout.destroyed = 1

C12_Witness ==
  rpc = "returned" /\ regLog = RegisterOrder /\ self \in DOMAIN _local_tasks

\* C13: a register that fails leaves the registry as it was: a failed
\* duplicate check has made no native call and created no set, and after a
\* failed native call the Task has no entry.
FailedRegister ==
  rpc = "raised" =>
    /\ regResult.kind = "AssertionError" =>
         /\ regLog = <<>>
         /\ nativeSets = NoSets
         /\ ~variant_call.made
         /\ execution_constraints = Unbound
         /\ layout_constraints = Unbound
    /\ regResult.kind # "AssertionError" => self \notin DOMAIN _local_tasks

FailingStep == (rpc' = "raised" \/ rpc = "raised") => _local_tasks' = _local_tasks

C13_FailureLeavesRegistry == []FailedRegister /\ [][FailingStep]_vars

C13_Witness ==
  /\ rpc = "raised"
  /\ regResult.kind = "NativeCallFailure"
  /\ variant_call.made
  /\ _local_tasks # <<>>

C13_WitnessDuplicate ==
  rpc = "raised" /\ regResult.kind = "AssertionError"

\* C14: every native register-variant call is passed an execution set
\* holding the one processor constraint PY_PROC, an empty layout set, the
\* auto-generate id, global = false and the three options false.
C14_VariantArguments ==
  variant_call.made =>
    /\ variant_call.execution = <<PY_PROC>>
    /\ variant_call.layout = <<>>
    /\ variant_call.id = AUTO_GENERATE_ID
    /\ variant_call.global = FALSE
    /\ variant_call.options.set
    /\ variant_call.options.leaf = FALSE
    /\ variant_call.options.inner = FALSE
    /\ variant_call.options.idempotent = FALSE

C14_Witness ==
  variant_call.made /\ Cardinality(DOMAIN _local_tasks) >= 1 /\ rpc = "destroy_execution"

\* C15: the wrapper does not modify the ArgumentBuffer: while an invocation
\* runs, and when it has returned or failed, args is what the wrapper copied
\* when it was called, and the length passed to the preamble is its length.
ArgsAsCalled ==
  \A i \in Invs :
    /\ pc[i] # "idle" =>
         /\ Locals(i).arg_ptr = Append(args[i], 0)
         /\ Locals(i).arg_size = Len(args[i])
    /\ obs[i].preamble_in # <<>> =>
         /\ obs[i].preamble_in[1] = Append(args[i], 0)
         /\ obs[i].preamble_in[2] = Len(args[i])

ArgsStep ==
  \A i \in Invs : pc[i] # "idle" /\ pc'[i] # "idle" => args'[i] = args[i]

C15_ArgsNotModified == []ArgsAsCalled /\ [][ArgsStep]_vars

C15_Witness ==
  \E i \in Invs : Ended(i) /\ Len(args[i]) > 0 /\ obs[i].preamble_in # <<>>

====
